---- MODULE Spec2Model ----
(***************************************************************************)
(* State-machine model of the cluster refinement / probability-model       *)
(* helpers of examples/neighbors/sparse-kde.py and of the PCovR utilities  *)
(* of skcosmo/utils/pcovr_utils.py.                                        *)
(*                                                                         *)
(* Conventions.                                                            *)
(*  - numpy arrays are functions over 0..n-1 (0-based, as in the source).  *)
(*  - probs holds log-densities in the source; the model stores the        *)
(*    density exp(probs[p]) as a positive integer, so that                 *)
(*    exp(logsumexp(probs[S]) - logsumexp(probs)) is Sum(S) / Sum(all)     *)
(*    and argmax is unchanged (exp is strictly increasing).                *)
(*  - thrpcl is the rational thrpcl / ThrDen.                              *)
(*  - mixing is the rational mixing / MixDen, and the kernel matrix K is   *)
(*    stored multiplied by MixDen.                                         *)
(***************************************************************************)
EXTENDS Integers, Sequences, FiniteSets, TLC

VARIABLES
    pc,                   \* position in the running function
    X,                    \* grid points: point index -> coordinate tuple
    metric_params,        \* NoParams or [cell_length |-> tuple]
    cell,                 \* NoCell or tuple of periods
    labels,               \* point index -> label (index of the cluster centre)
    cluster_centers_idx,  \* array of centre indices
    probs,                \* point index -> density
    thrpcl,               \* merge threshold numerator (over ThrDen)
    to_merge,             \* array of flags, one per centre
    k, i,                 \* loop variables of the source
    labels0, centers0,    \* the arrays as they were when the call was made
    ret,                  \* NoReturn until the function returns
    nclusters,            \* generate_probability_model: len(cluster_center_idx)
    center_idx,           \* np.unique(labels)
    cluster_weight,       \* array of weights, each over normpks = Sum(probs)
    cluster_mean,         \* array of mean vectors
    cluster_cov,          \* array of covariance terms
    warnings,             \* the lines printed so far
    heap, heap0,          \* check_lr_fit: the regressor objects, now and at the call
    regressor,            \* reference to the regressor passed in
    fitted_regressor,     \* reference bound by check_lr_fit (0: not bound yet)
    fit_calls,            \* the calls of fit made so far
    Y,                    \* pcovr_kernel: target matrix Y; check_lr_fit: the target y
    mixing,               \* mixing numerator (over MixDen)
    kernel_params,        \* keyword arguments of pcovr_kernel
    K                     \* the kernel being accumulated, times MixDen

\* ------------------------------------------------------------------ bounds
NPoints == 3
MaxDens == 2
ThrDen == 2
Dims == {1, 2}
Cells == {<<3>>, <<3, 3>>}
MaxParam == 2
MaxData == 2
MaxEntry == 1
MixDen == 2

Points == 0 .. NPoints - 1

\* Python's None, for each optional value
NoParams == [is_none |-> TRUE]
NoCell == <<>>
NoReturn == [returned |-> FALSE]

\* ----------------------------------------------------------- array helpers
Size(a) == Cardinality(DOMAIN a)

RECURSIVE SumOver(_, _)
SumOver(f, S) ==
    IF S = {} THEN 0
    ELSE LET x == CHOOSE y \in S : TRUE IN f[x] + SumOver(f, S \ {x})

\* the ascending array of the members of a set of integers
RECURSIVE SortedArray(_)
SortedArray(S) ==
    IF S = {} THEN <<>>
    ELSE LET m == CHOOSE y \in S : \A z \in S : z <= y
         IN  Append(SortedArray(S \ {m}), m)

ZeroBased(s) == [j \in 0 .. Size(s) - 1 |-> s[j + 1]]

\* labels == v, as the set of indices where the mask is true
Members(lab, v) == {p \in DOMAIN lab : lab[p] = v}

\* lab[lab == old] = new
Relabel(lab, old, new) == [p \in DOMAIN lab |-> IF lab[p] = old THEN new ELSE lab[p]]

\* exp(logsumexp(probs[labels == c]) - normpks) > thrpcl
MassExceeds(lab, c) ==
    SumOver(probs, Members(lab, c)) * ThrDen > thrpcl * SumOver(probs, DOMAIN probs)

\* np.argmax(np.ma.array(probs, mask=labels != c)): first index of the maximum
MaskedArgMax(lab, c) ==
    CHOOSE p \in Members(lab, c) :
        \A q \in Members(lab, c) : probs[q] <= probs[p] /\ (probs[q] = probs[p] => p <= q)

\* periodic_pairwise_euclidean_distances for one pair; the squared distance is
\* returned (the source only compares distances)
Wrap(d, period) ==
    LET r == d % period IN IF 2 * r > period THEN r - period ELSE r

RECURSIVE SqDist(_, _, _, _)
SqDist(a, b, c, n) ==
    IF n = 0 THEN 0
    ELSE LET d == IF c = NoCell THEN a[n] - b[n] ELSE Wrap(a[n] - b[n], c[n])
         IN  d * d + SqDist(a, b, c, n - 1)

metric(a, b, c) == SqDist(a, b, c, Size(a))

\* ------------------------------------------------- quick_shift_refinement
\* inputs: labels in which every label is a self-labelled point, the centres
\* in any order, any densities, any threshold in [0, 1]
WellFormedLabels == {l \in [Points -> Points] : \A p \in Points : l[l[p]] = l[p]}

Roots(l) == {l[p] : p \in DOMAIN l}

CenterArrays(l) ==
    {c \in [0 .. Cardinality(Roots(l)) - 1 -> Roots(l)] :
        \A a, b \in DOMAIN c : a # b => c[a] # c[b]}

\* the grid: point p lies at p on the first axis, in 1 or 2 dimensions
GridInputs ==
    {[p \in Points |-> [c \in 1 .. d |-> IF c = 1 THEN p ELSE 0]] : d \in Dims}

Dimension(x) == Size(x[0])

\* the variables a function does not use keep these values
gpLocals == <<nclusters, center_idx, cluster_weight, cluster_mean, cluster_cov, warnings>>
lrVars == <<heap, heap0, regressor, fitted_regressor, fit_calls>>
pkVars == <<Y, mixing, kernel_params, K>>
qsLocals == <<metric_params, thrpcl, to_merge, i>>

GPIdle ==
    /\ nclusters = 0
    /\ center_idx = <<>>
    /\ cluster_weight = <<>>
    /\ cluster_mean = <<>>
    /\ cluster_cov = <<>>
    /\ warnings = <<>>

LRIdle ==
    /\ heap = <<>>
    /\ heap0 = <<>>
    /\ regressor = 0
    /\ fitted_regressor = 0
    /\ fit_calls = <<>>

PKIdle ==
    /\ Y = <<>>
    /\ mixing = 0
    /\ kernel_params = [is_empty |-> TRUE]
    /\ K = <<>>

QSIdle ==
    /\ metric_params = NoParams
    /\ thrpcl = 0
    /\ to_merge = <<>>
    /\ i = 0

QSInit ==
    /\ pc = "qs_entry"
    /\ X \in GridInputs
    /\ metric_params \in {NoParams} \cup {[cell_length |-> c] : c \in Cells}
    /\ cell = NoCell
    /\ labels \in WellFormedLabels
    /\ cluster_centers_idx \in CenterArrays(labels)
    /\ probs \in [Points -> 1 .. MaxDens]
    /\ thrpcl \in 0 .. ThrDen
    /\ to_merge = <<>>
    /\ k = 0
    /\ i = 0
    /\ labels0 = labels
    /\ centers0 = cluster_centers_idx
    /\ ret = NoReturn
    /\ GPIdle
    /\ LRIdle
    /\ PKIdle

\* a check that never fires
CellMismatchIgnored(mp, x) == FALSE

\* lines 265-270: the cell is read from metric_params and checked
CellMismatch(mp, x) == mp # NoParams /\ Size(mp.cell_length) # Dimension(x)

QSCheckCell ==
    /\ pc = "qs_entry"
    /\ IF CellMismatch(metric_params, X)
       THEN /\ pc' = "raised"
            /\ cell' = metric_params.cell_length
       ELSE /\ pc' = "qs_flags"
            /\ cell' = IF metric_params = NoParams THEN NoCell ELSE metric_params.cell_length
    /\ UNCHANGED <<X, metric_params, labels, cluster_centers_idx, probs, thrpcl,
                   to_merge, k, i, labels0, centers0, ret, gpLocals, lrVars, pkVars>>

\* lines 272-278: one flag per centre
MergeFlag(lab, c) == MassExceeds(lab, c)

QSFlags ==
    /\ pc = "qs_flags"
    /\ to_merge' = [n \in DOMAIN cluster_centers_idx |->
                        MergeFlag(labels, cluster_centers_idx[n])]
    /\ k' = Size(cluster_centers_idx) - 1
    /\ i' = 0
    /\ pc' = "qs_merge"
    /\ UNCHANGED <<X, metric_params, cell, labels, cluster_centers_idx, probs, thrpcl,
                   labels0, centers0, ret, gpLocals, lrVars, pkVars>>

\* lines 285-291: the inner loop over j; best = -1 stands for np.inf
RECURSIVE NearestLoop(_, _, _, _)
NearestLoop(j, yi, best, cc) ==
    IF j >= Size(cc) THEN cc
    ELSE IF to_merge[k] THEN NearestLoop(j + 1, yi, best, cc)
    ELSE LET d == metric(X[labels[yi]], X[labels[j]], cell)
         IN  IF best = -1 \/ d < best
             THEN NearestLoop(j + 1, yi, d, [cc EXCEPT ![i] = j])
             ELSE NearestLoop(j + 1, yi, best, cc)

\* lines 280-292: one iteration of the loop over i
SkipMerge == ~to_merge[k]

QSMergeStep ==
    /\ pc = "qs_merge"
    /\ i < Size(cluster_centers_idx)
    /\ IF SkipMerge
       THEN UNCHANGED <<cluster_centers_idx, labels>>
       ELSE LET yi == cluster_centers_idx[i]
                cc == NearestLoop(0, yi, -1, cluster_centers_idx)
            IN  /\ cluster_centers_idx' = cc
                /\ labels' = Relabel(labels, yi, cc[i])
    /\ i' = i + 1
    /\ pc' = IF i + 1 = Size(cluster_centers_idx) THEN "qs_merged" ELSE "qs_merge"
    /\ UNCHANGED <<X, metric_params, cell, probs, thrpcl, to_merge, k,
                   labels0, centers0, ret, gpLocals, lrVars, pkVars>>

\* lines 293-297: np.argwhere(labels == np.arange(len(labels)))
SelfLabelled(lab) == ZeroBased(SortedArray({p \in DOMAIN lab : lab[p] = p}))

AnyFlag == \E n \in DOMAIN to_merge : to_merge[n]

QSRecompute ==
    /\ pc = "qs_merged"
    /\ IF AnyFlag
       THEN /\ cluster_centers_idx' = SelfLabelled(labels)
            /\ i' = 0
            /\ pc' = "qs_recenter"
       ELSE /\ UNCHANGED <<cluster_centers_idx, i>>
            /\ pc' = "qs_return"
    /\ UNCHANGED <<X, metric_params, cell, labels, probs, thrpcl, to_merge, k,
                   labels0, centers0, ret, gpLocals, lrVars, pkVars>>

\* lines 298-303: one iteration of the re-centring loop
\* a re-centring that takes the lowest density instead of the highest
NewCenterArgMin(lab, c) ==
    CHOOSE p \in Members(lab, c) :
        \A q \in Members(lab, c) : probs[q] >= probs[p] /\ (probs[q] = probs[p] => p <= q)

NewCenter(lab, c) == MaskedArgMax(lab, c)

\* a re-centring that forgets line 303 and leaves the members' labels alone
RecenterLabelsKept(lab, old, new) == lab

RecenterLabels(lab, old, new) == Relabel(lab, old, new)

QSRecenterStep ==
    /\ pc = "qs_recenter"
    /\ i < Size(cluster_centers_idx)
    /\ LET old == cluster_centers_idx[i]
           new == NewCenter(labels, old)
       IN  /\ cluster_centers_idx' = [cluster_centers_idx EXCEPT ![i] = new]
           /\ labels' = RecenterLabels(labels, old, new)
    /\ i' = i + 1
    /\ pc' = IF i + 1 = Size(cluster_centers_idx) THEN "qs_return" ELSE "qs_recenter"
    /\ UNCHANGED <<X, metric_params, cell, probs, thrpcl, to_merge, k,
                   labels0, centers0, ret, gpLocals, lrVars, pkVars>>

\* line 305
QSReturn ==
    /\ pc = "qs_return"
    /\ ret' = [cluster_centers_idx |-> cluster_centers_idx, labels |-> labels]
    /\ pc' = "qs_done"
    /\ UNCHANGED <<X, metric_params, cell, labels, cluster_centers_idx, probs, thrpcl,
                   to_merge, k, i, labels0, centers0, gpLocals, lrVars, pkVars>>

vars == <<pc, X, metric_params, cell, labels, cluster_centers_idx, probs, thrpcl,
          to_merge, k, i, labels0, centers0, ret, gpLocals, lrVars, pkVars>>

QSNext ==
    \/ QSCheckCell
    \/ QSFlags
    \/ QSMergeStep
    \/ QSRecompute
    \/ QSRecenterStep
    \/ QSReturn

SpecRefine == QSInit /\ [][QSNext]_vars

\* --------------------------------------------- generate_probability_model
\* inputs: any well-formed labelling, any array of centre indices (only its
\* length is read; at least one entry), any densities, the grid, a cell or none.  descriptors,
\* descriptor_labels and descriptor_weights are only handed on to the
\* covariance routines, which are kept as terms naming their arguments.
IndexArrays == {ZeroBased(SortedArray(S)) : S \in SUBSET Points \ {{}}}

GPInit ==
    /\ pc = "gp_entry"
    /\ X \in GridInputs
    /\ cell \in {NoCell} \cup Cells
    /\ labels \in WellFormedLabels
    /\ cluster_centers_idx \in IndexArrays
    /\ probs \in [Points -> 1 .. MaxDens]
    /\ k = 0
    /\ labels0 = labels
    /\ centers0 = cluster_centers_idx
    /\ ret = NoReturn
    /\ QSIdle
    /\ GPIdle
    /\ LRIdle
    /\ PKIdle

\* lines 430-431
GPCellMismatch(c, x) == c # NoCell /\ Dimension(x) # Size(c)

GPCheckCell ==
    /\ pc = "gp_entry"
    /\ pc' = IF GPCellMismatch(cell, X) THEN "raised" ELSE "gp_setup"
    /\ UNCHANGED <<X, cell, labels, cluster_centers_idx, probs, k, labels0, centers0,
                   ret, qsLocals, gpLocals, lrVars, pkVars>>

\* np.unique(labels)
Unique(lab) == ZeroBased(SortedArray(Roots(lab)))

\* np.zeros((nclusters, dimension)) and np.zeros((nclusters, dimension, dimension))
\* means read off the grid: entry c is the grid point of index c
MeansFromGrid(n, d) == [c \in 0 .. n - 1 |-> X[c]]

ZeroMeans(n, d) == [c \in 0 .. n - 1 |-> [a \in 1 .. d |-> 0]]

ZeroCov == [fn |-> "zeros"]

\* lines 432-439
GPSetup ==
    /\ pc = "gp_setup"
    /\ nclusters' = Size(cluster_centers_idx)
    /\ cluster_mean' = ZeroMeans(Size(cluster_centers_idx), Dimension(X))
    /\ cluster_cov' = [c \in 0 .. Size(cluster_centers_idx) - 1 |-> ZeroCov]
    /\ cluster_weight' = [c \in 0 .. Size(cluster_centers_idx) - 1 |-> 0]
    /\ center_idx' = Unique(labels)
    /\ k' = 0
    /\ pc' = IF Size(cluster_centers_idx) = 0 THEN "gp_return" ELSE "gp_loop"
    /\ UNCHANGED <<X, cell, labels, cluster_centers_idx, probs, labels0, centers0,
                   ret, qsLocals, warnings, lrVars, pkVars>>

\* lines 387-401 and 403-428: the covariance of cluster idcl of x under the
\* assignment clroots and the weights w
get_lcov_cluster(N, x, clroots, idcl, w) ==
    [fn |-> "_covariance", N |-> N, x |-> x, clroots |-> clroots, idcl |-> idcl,
     probs |-> w]

get_lcov_clusterp(N, Ntot, x, clroots, idcl, w) ==
    [fn |-> "circular", N |-> N, Ntot |-> Ntot, x |-> x, clroots |-> clroots,
     idcl |-> idcl, probs |-> w]

\* skmatter.utils.oas(cov, n, D)
oas(cov, n, D) == [fn |-> "oas", cov |-> cov, n |-> n, D |-> D]

\* np.sum(idxroot == center_idx[k]) == 1
SinglePoint(lab, c) == Cardinality(Members(lab, c)) = 1

\* a fallback that recomputes from the grid assignment again
FallbackFromGrid(c) ==
    IF cell # NoCell
    THEN get_lcov_clusterp("len(X)", "nsamples", "X", "labels", c, "probs")
    ELSE get_lcov_cluster("len(X)", "X", "labels", c, "probs")

\* lines 357-365 and 370-377: the covariance recomputed for a single-point cluster
Fallback(c) ==
    IF cell # NoCell
    THEN get_lcov_clusterp("nsamples", "nsamples", "descriptors", "descriptor_labels",
                           c, "descriptor_weights")
    ELSE get_lcov_cluster("nsamples", "descriptors", "descriptor_labels", c,
                          "descriptor_weights")

\* lines 343-385
update_cluster_cov(kk) ==
    LET c == center_idx[kk]
        first == IF cell # NoCell
                 THEN get_lcov_clusterp("len(X)", "nsamples", "X", "labels", c, "probs")
                 ELSE get_lcov_cluster("len(X)", "X", "labels", c, "probs")
        cov == IF SinglePoint(labels, c) THEN Fallback(c) ELSE first
    IN  IF cell # NoCell
        THEN cov
        ELSE oas(cov, [log_of |-> SumOver(probs, Members(labels, c)), times |-> "nsamples"],
                 Dimension(X))

Printed(kk) ==
    IF SinglePoint(labels, center_idx[kk])
    THEN Append(warnings, "Warning: single point cluster!")
    ELSE warnings

\* line 442, as a numerator over normpks
ClusterMass(kk) == SumOver(probs, Members(labels, center_idx[kk]))

\* lines 441-445: one iteration; center_idx[k] past the end is an IndexError
GPClusterStep ==
    /\ pc = "gp_loop"
    /\ k < nclusters
    /\ IF k >= Size(center_idx)
       THEN /\ pc' = "index_error"
            /\ UNCHANGED <<cluster_weight, cluster_cov, warnings, k>>
       ELSE /\ cluster_weight' = [cluster_weight EXCEPT ![k] = ClusterMass(k)]
            /\ cluster_cov' = [cluster_cov EXCEPT ![k] = update_cluster_cov(k)]
            /\ warnings' = Printed(k)
            /\ k' = IF k + 1 = nclusters THEN 0 ELSE k + 1
            /\ pc' = IF k + 1 = nclusters THEN "gp_relabel" ELSE "gp_loop"
    /\ UNCHANGED <<X, cell, labels, cluster_centers_idx, probs, labels0, centers0,
                   ret, qsLocals, nclusters, center_idx, cluster_mean, lrVars, pkVars>>

\* lines 446-447: one iteration
GPRelabelStep ==
    /\ pc = "gp_relabel"
    /\ k < nclusters
    /\ labels' = Relabel(labels, center_idx[k], k + 1)
    /\ k' = k + 1
    /\ pc' = IF k + 1 = nclusters THEN "gp_return" ELSE "gp_relabel"
    /\ UNCHANGED <<X, cell, cluster_centers_idx, probs, labels0, centers0,
                   ret, qsLocals, gpLocals, lrVars, pkVars>>

\* line 449
GPReturn ==
    /\ pc = "gp_return"
    /\ ret' = [cluster_weight |-> cluster_weight, cluster_mean |-> cluster_mean,
               cluster_cov |-> cluster_cov, labels |-> labels]
    /\ pc' = "gp_done"
    /\ UNCHANGED <<X, cell, labels, cluster_centers_idx, probs, k, labels0, centers0,
                   qsLocals, gpLocals, lrVars, pkVars>>

GPNext ==
    \/ GPCheckCell
    \/ GPSetup
    \/ GPClusterStep
    \/ GPRelabelStep
    \/ GPReturn

SpecModel == GPInit /\ [][GPNext]_vars

\* both functions, for what they share
SpecCells == (QSInit \/ GPInit) /\ [][QSNext \/ GPNext]_vars

\* ------------------------------------------------------------ check_lr_fit
\* A regressor object holds its constructor parameters and its fitted
\* attributes (the ones sklearn names with a trailing underscore); fit stores
\* what it learnt from (params, X, y).  X and y are dataset identifiers, y = 0
\* being the default y=None.
Unfitted == [is_fitted |-> FALSE]

Learnt(params, x, y) == [is_fitted |-> TRUE, params |-> params, X |-> x, y |-> y]

Regressors ==
    {[params |-> p, attrs |-> a] :
        p \in 1 .. MaxParam,
        a \in {Unfitted} \cup {Learnt(q, x, y) : q \in 1 .. MaxParam,
                                                  x \in 1 .. MaxData, y \in 0 .. MaxData}}

LRInit ==
    /\ pc = "lr_entry"
    /\ \E r \in Regressors : heap = <<r>>
    /\ heap0 = heap
    /\ regressor = 1
    /\ fitted_regressor = 0
    /\ fit_calls = <<>>
    /\ X \in 1 .. MaxData
    /\ Y \in 0 .. MaxData
    /\ ret = NoReturn
    /\ cell = NoCell
    /\ labels = <<>>
    /\ cluster_centers_idx = <<>>
    /\ probs = <<>>
    /\ k = 0
    /\ labels0 = <<>>
    /\ centers0 = <<>>
    /\ QSIdle
    /\ GPIdle
    /\ mixing = 0
    /\ kernel_params = [is_empty |-> TRUE]
    /\ K = <<>>

\* a check that takes every regressor for a fitted one
FittedAlways(obj) == TRUE

\* line 30: sklearn's check_is_fitted passes iff the estimator has fitted
\* attributes, and raises NotFittedError otherwise
IsFitted(obj) == obj.attrs.is_fitted

LRCheck ==
    /\ pc = "lr_entry"
    /\ pc' = IF IsFitted(heap[regressor]) THEN "lr_deepcopy" ELSE "lr_clone"
    /\ UNCHANGED <<X, Y, cell, labels, cluster_centers_idx, probs, k, labels0, centers0,
                   ret, qsLocals, gpLocals, lrVars, mixing, kernel_params, K>>

\* line 31: deepcopy makes a new object with the same parameters and attributes
LRDeepcopy ==
    /\ pc = "lr_deepcopy"
    /\ heap' = Append(heap, heap[regressor])
    /\ fitted_regressor' = Len(heap) + 1
    /\ pc' = "lr_return"
    /\ UNCHANGED <<X, Y, cell, labels, cluster_centers_idx, probs, k, labels0, centers0,
                   ret, qsLocals, gpLocals, heap0, regressor, fit_calls,
                   mixing, kernel_params, K>>

\* line 33: clone makes a new, unfitted object with the same parameters
LRClone ==
    /\ pc = "lr_clone"
    /\ heap' = Append(heap, [params |-> heap[regressor].params, attrs |-> Unfitted])
    /\ fitted_regressor' = Len(heap) + 1
    /\ pc' = "lr_fit"
    /\ UNCHANGED <<X, Y, cell, labels, cluster_centers_idx, probs, k, labels0, centers0,
                   ret, qsLocals, gpLocals, heap0, regressor, fit_calls,
                   mixing, kernel_params, K>>

\* line 34: fitted_regressor.fit(X, y=y)
LRFit ==
    /\ pc = "lr_fit"
    /\ heap' = [heap EXCEPT ![fitted_regressor].attrs =
                                Learnt(heap[fitted_regressor].params, X, Y)]
    /\ fit_calls' = Append(fit_calls, [self |-> fitted_regressor, X |-> X, y |-> Y])
    /\ pc' = "lr_return"
    /\ UNCHANGED <<X, Y, cell, labels, cluster_centers_idx, probs, k, labels0, centers0,
                   ret, qsLocals, gpLocals, heap0, regressor, fitted_regressor,
                   mixing, kernel_params, K>>

\* line 36
LRReturn ==
    /\ pc = "lr_return"
    /\ ret' = [fitted_regressor |-> fitted_regressor]
    /\ pc' = "lr_done"
    /\ UNCHANGED <<X, Y, cell, labels, cluster_centers_idx, probs, k, labels0, centers0,
                   qsLocals, gpLocals, lrVars, mixing, kernel_params, K>>

LRNext ==
    \/ LRCheck
    \/ LRDeepcopy
    \/ LRClone
    \/ LRFit
    \/ LRReturn

SpecFit == LRInit /\ [][LRNext]_vars

\* ------------------------------------------------------------ pcovr_kernel
\* X is n x m and Y is n x p, as tuples of rows, with n = m = 2 and p = 1 so
\* that X can also be a precomputed n x n kernel.  mixing is mixing / MixDen
\* in [0, 1]; K holds MixDen times the kernel.
Entries == 0 .. MaxEntry

Rows == 1 .. 2

DataMatrices == [Rows -> [1 .. 2 -> Entries]]

TargetMatrices == [Rows -> [1 .. 1 -> Entries]]

KernelParams ==
    {[is_empty |-> TRUE], [kernel |-> "linear"], [kernel |-> "precomputed"],
     [kernel |-> "poly", degree |-> 2, gamma |-> 1, coef0 |-> 1]}

PKInit ==
    /\ pc = "pk_entry"
    /\ X \in DataMatrices
    /\ Y \in TargetMatrices
    /\ mixing \in 0 .. MixDen
    /\ kernel_params \in KernelParams
    /\ K = <<>>
    /\ ret = NoReturn
    /\ cell = NoCell
    /\ labels = <<>>
    /\ cluster_centers_idx = <<>>
    /\ probs = <<>>
    /\ k = 0
    /\ labels0 = <<>>
    /\ centers0 = <<>>
    /\ QSIdle
    /\ GPIdle
    /\ LRIdle

RECURSIVE Dot(_, _, _)
Dot(a, b, n) == IF n = 0 THEN 0 ELSE a[n] * b[n] + Dot(a, b, n - 1)

\* A @ A.T
Gram(A) == [r \in DOMAIN A |-> [c \in DOMAIN A |-> Dot(A[r], A[c], Len(A[r]))]]

Zeros(n) == [r \in 1 .. n |-> [c \in 1 .. n |-> 0]]

\* M += a * B
AddScaled(M, a, B) == [r \in DOMAIN M |-> [c \in DOMAIN M[r] |-> M[r][c] + a * B[r][c]]]

RECURSIVE Power(_, _)
Power(b, e) == IF e = 0 THEN 1 ELSE b * Power(b, e - 1)

\* sklearn's pairwise_kernels(X, kernel=...) for the kernels drawn above
pairwise_kernels(A, params) ==
    IF params.kernel = "linear" THEN Gram(A)
    ELSE [r \in DOMAIN A |-> [c \in DOMAIN A |->
              Power(params.gamma * Dot(A[r], A[c], Len(A[r])) + params.coef0,
                    params.degree)]]

\* line 161
PKZeros ==
    /\ pc = "pk_entry"
    /\ K' = Zeros(Len(X))
    /\ pc' = "pk_targets"
    /\ UNCHANGED <<X, Y, cell, labels, cluster_centers_idx, probs, k, labels0, centers0,
                   ret, qsLocals, gpLocals, lrVars, mixing, kernel_params>>

\* a guard that drops the target term for every mixing above 0
AddsTargetsOnlyAtZero == mixing <= 0

\* line 162: mixing < 1
AddsTargets == mixing < MixDen

\* lines 162-163
PKTargets ==
    /\ pc = "pk_targets"
    /\ K' = IF AddsTargets THEN AddScaled(K, MixDen - mixing, Gram(Y)) ELSE K
    /\ pc' = "pk_data"
    /\ UNCHANGED <<X, Y, cell, labels, cluster_centers_idx, probs, k, labels0, centers0,
                   ret, qsLocals, gpLocals, lrVars, mixing, kernel_params>>

\* lines 165-170: the kernel of the data
DataKernel(A, params) ==
    IF params = [is_empty |-> TRUE] THEN Gram(A)
    ELSE IF params.kernel # "precomputed" THEN pairwise_kernels(A, params)
    ELSE A

\* lines 164-170
PKData ==
    /\ pc = "pk_data"
    /\ K' = IF mixing > 0 THEN AddScaled(K, mixing, DataKernel(X, kernel_params)) ELSE K
    /\ pc' = "pk_return"
    /\ UNCHANGED <<X, Y, cell, labels, cluster_centers_idx, probs, k, labels0, centers0,
                   ret, qsLocals, gpLocals, lrVars, mixing, kernel_params>>

\* line 172
PKReturn ==
    /\ pc = "pk_return"
    /\ ret' = [K |-> K]
    /\ pc' = "pk_done"
    /\ UNCHANGED <<X, Y, cell, labels, cluster_centers_idx, probs, k, labels0, centers0,
                   qsLocals, gpLocals, lrVars, pkVars>>

PKNext ==
    \/ PKZeros
    \/ PKTargets
    \/ PKData
    \/ PKReturn

SpecKernel == PKInit /\ [][PKNext]_vars

\* ------------------------------------- claims on quick_shift_refinement
Range(a) == {a[n] : n \in DOMAIN a}

\* mass fraction of cluster c of labelling lab strictly above thrpcl
Significant(lab, c) == MassExceeds(lab, c)

\* every centre of array cc is self-labelled and densest in its cluster
CentersDensest(cc, lab) ==
    \A n \in DOMAIN cc :
        /\ lab[cc[n]] = cc[n]
        /\ \A j \in DOMAIN lab : lab[j] = cc[n] => probs[cc[n]] >= probs[j]

\* C1: after quick_shift_refinement returns, every surviving cluster has a mass
\* fraction strictly above thrpcl, unless no cluster at all exceeds thrpcl.
C1_SurvivorsExceedThreshold ==
    pc = "qs_done" =>
        ((\E c \in Roots(labels0) : Significant(labels0, c)) =>
            \A c \in Roots(ret.labels) : Significant(ret.labels, c))

\* C2: after the merge loop, a cluster is merged iff its own mass fraction is at
\* or below thrpcl; the members of a merged cluster all carry the nearest centre
\* among the clusters that are not merged, and the other clusters are untouched.
C2_MergedIffBelowThreshold ==
    pc = "qs_merged" =>
        LET keep == {c \in Roots(labels0) : Significant(labels0, c)}
        IN  \A c \in Roots(labels0) :
                IF c \notin keep /\ keep # {}
                THEN \E t \in keep :
                        /\ \A u \in keep :
                               metric(X[c], X[t], cell) <= metric(X[c], X[u], cell)
                        /\ \A p \in Members(labels0, c) : labels[p] = t
                ELSE \A p \in Members(labels0, c) : labels[p] = c

C4_ConsistentRelabeling ==
    pc = "qs_done" =>
        /\ Roots(ret.labels) = Range(ret.cluster_centers_idx)
        /\ \A n \in DOMAIN ret.cluster_centers_idx :
               ret.labels[ret.cluster_centers_idx[n]] = ret.cluster_centers_idx[n]
        /\ DOMAIN ret.labels = Points
        /\ \A p \in Points : ret.labels[p] \in Points

\* a call that moved a centre and relabelled its cluster
C4_Witness ==
    /\ pc = "qs_done"
    /\ ret.labels # labels0
    /\ Cardinality(Roots(ret.labels)) >= 2

\* ---------------------------------- claims on generate_probability_model
\* C5: with K distinct input labels and one centre index per cluster, the
\* output labels take exactly the values 1..K and two points share an output
\* label iff they shared an input label.
C5_RelabelBijection ==
    pc = "gp_done" /\ Range(centers0) = Roots(labels0) =>
        /\ Roots(ret.labels) = 1 .. Cardinality(Roots(labels0))
        /\ \A p, q \in Points :
               (ret.labels[p] = ret.labels[q]) <=> (labels0[p] = labels0[q])

\* C6: whatever cluster_center_idx is passed, the call returns one weight per
\* distinct label, each that cluster's mass over the total, summing to 1.
C6_OneWeightPerCluster ==
    /\ pc # "index_error"
    /\ pc = "gp_done" =>
           /\ Size(ret.cluster_weight) = Cardinality(Roots(labels0))
           /\ \A n \in DOMAIN ret.cluster_weight :
                  ret.cluster_weight[n] = SumOver(probs, Members(labels0, Unique(labels0)[n]))
           /\ SumOver(ret.cluster_weight, DOMAIN ret.cluster_weight)
                  = SumOver(probs, Points)

\* C7: a cell whose length differs from the data dimension stops both functions
\* at their first statement: the call never gets past the check, and when the
\* error is raised no label or centre has changed and nothing is returned.
C7_MismatchRaisesEagerly ==
    LET mismatch ==
            \/ metric_params # NoParams /\ Size(metric_params.cell_length) # Dimension(X)
            \/ metric_params = NoParams /\ cell # NoCell /\ Size(cell) # Dimension(X)
    IN  /\ mismatch => pc \in {"qs_entry", "gp_entry", "raised"}
        /\ pc = "raised" =>
               /\ mismatch
               /\ labels = labels0
               /\ cluster_centers_idx = centers0
               /\ to_merge = <<>>
               /\ cluster_weight = <<>>
               /\ ret = NoReturn

\* quick_shift_refinement has raised on a two-entry cell for one-dimensional data
C7_Witness ==
    /\ pc = "raised"
    /\ metric_params # NoParams
    /\ Size(metric_params.cell_length) = 2
    /\ Dimension(X) = 1

\* the covariance term stored for cluster n, below the shrinkage if any
RawCov(n) == IF cell = NoCell THEN cluster_cov[n].cov ELSE cluster_cov[n]

Processed == {n \in DOMAIN cluster_cov : cluster_cov[n] # ZeroCov}

\* C8: a cluster of one grid point gets its covariance from the descriptors,
\* their grid assignment and their weights, with one warning printed per such
\* cluster, in the periodic and the non-periodic branch; the call then returns a
\* covariance for every one of its nclusters entries, and the only errors are the
\* cell check and an index past the distinct labels.
C8_SinglePointFallback ==
    /\ \A n \in Processed :
           SinglePoint(labels0, center_idx[n]) =>
               /\ RawCov(n).x = "descriptors"
               /\ RawCov(n).clroots = "descriptor_labels"
               /\ RawCov(n).probs = "descriptor_weights"
               /\ RawCov(n).idcl = center_idx[n]
               /\ RawCov(n).fn = IF cell = NoCell THEN "_covariance" ELSE "circular"
    /\ Len(warnings) = Cardinality({n \in Processed : SinglePoint(labels0, center_idx[n])})
    /\ pc = "gp_done" =>
           /\ DOMAIN ret.cluster_cov = 0 .. nclusters - 1
           /\ \A n \in DOMAIN ret.cluster_cov : ret.cluster_cov[n] # ZeroCov
    /\ pc \in {"raised", "index_error"} =>
           \/ cell # NoCell /\ Size(cell) # Dimension(X)
           \/ Size(centers0) > Cardinality(Roots(labels0))

\* a periodic call returned with a single-point cluster and a larger one
C8_Witness ==
    /\ pc = "gp_done"
    /\ cell # NoCell
    /\ warnings # <<>>
    /\ \E n, m \in DOMAIN ret.cluster_cov :
           /\ SinglePoint(labels0, center_idx[n])
           /\ ~SinglePoint(labels0, center_idx[m])

\* ------------------------------------------------- claims on check_lr_fit
\* C9: check_lr_fit returns a fitted regressor that is a new object and leaves
\* the one passed in alone: for a fitted regressor a copy with the same
\* parameters and fitted attributes and no call of fit; for an unfitted one a
\* clone with the same parameters on which fit(X, y) was called exactly once.
C9_ReturnsFittedRegressor ==
    pc = "lr_done" =>
        LET r == ret.fitted_regressor
            given == heap0[regressor]
        IN  /\ r # regressor
            /\ heap[regressor] = given
            /\ heap[r].attrs.is_fitted
            /\ IF given.attrs.is_fitted
               THEN /\ heap[r] = given
                    /\ fit_calls = <<>>
               ELSE /\ heap[r].params = given.params
                    /\ heap[r].attrs = Learnt(given.params, X, Y)
                    /\ fit_calls = <<[self |-> r, X |-> X, y |-> Y]>>

\* an unfitted regressor was cloned and fitted
C9_Witness ==
    /\ pc = "lr_done"
    /\ ~heap0[regressor].attrs.is_fitted
    /\ Len(fit_calls) = 1

\* ------------------------------------------------- claims on pcovr_kernel
\* the kernel the claim names for the data
ClaimedDataKernel(A, params) ==
    IF params = [is_empty |-> TRUE] THEN Gram(A)
    ELSE IF params.kernel = "precomputed" THEN A
    ELSE pairwise_kernels(A, params)

\* MixDen * (mixing * K + (1 - mixing) * Y Y^T)
ClaimedKernel(mix, A, B, params) ==
    [r \in Rows |-> [c \in Rows |->
        mix * ClaimedDataKernel(A, params)[r][c] + (MixDen - mix) * Gram(B)[r][c]]]

\* C10: pcovr_kernel returns mixing * K + (1 - mixing) * Y Y^T with K the Gram
\* matrix of X, pairwise_kernels(X) or X itself; the result does not depend on Y
\* at mixing = 1 nor on X at mixing = 0.
C10_KernelFormula ==
    pc = "pk_done" =>
        /\ ret.K = ClaimedKernel(mixing, X, Y, kernel_params)
        /\ mixing = MixDen =>
               \A B \in TargetMatrices : ret.K = ClaimedKernel(mixing, X, B, kernel_params)
        /\ mixing = 0 =>
               \A A \in DataMatrices : ret.K = ClaimedKernel(mixing, A, Y, kernel_params)

\* a mixed polynomial kernel with both terms non-zero
C10_Witness ==
    /\ pc = "pk_done"
    /\ mixing > 0
    /\ mixing < MixDen
    /\ kernel_params # [is_empty |-> TRUE]
    /\ kernel_params.kernel = "poly"
    /\ Gram(Y)[1][2] # 0
    /\ Gram(X)[1][2] # 0

\* C11: generate_probability_model returns cluster_mean as an array of
\* nclusters rows of d zeros (nclusters = len(cluster_center_idx), d = X.shape[1]),
\* whatever X, labels, the centres and the densities are; from its allocation on
\* the array is never written.
C11_MeansAreZero ==
    /\ pc \in {"gp_loop", "gp_relabel", "gp_return", "gp_done", "index_error"} =>
           /\ DOMAIN cluster_mean = 0 .. Size(centers0) - 1
           /\ \A c \in DOMAIN cluster_mean :
                  /\ DOMAIN cluster_mean[c] = 1 .. Dimension(X)
                  /\ \A a \in DOMAIN cluster_mean[c] : cluster_mean[c][a] = 0
    /\ pc = "gp_done" => ret.cluster_mean = cluster_mean

\* a call returned two clusters of unequal mass on a two-dimensional grid whose
\* centres lie away from the origin
C11_Witness ==
    /\ pc = "gp_done"
    /\ Dimension(X) = 2
    /\ Size(ret.cluster_mean) = 2
    /\ Roots(labels0) = {1, 2}
    /\ ret.cluster_weight[0] # ret.cluster_weight[1]

====
